---- MODULE Spec2Model ----
(***************************************************************************)
(* Time tracker bot (src/bot.py): the session engine (user_sessions +      *)
(* activities tables of the sqlite database), the backdated-entry dialog   *)
(* (user_states) and the webhook dispatch onto telebot's worker threads.   *)
(*                                                                         *)
(* Russian button texts and activity names are transliterated to ASCII;    *)
(* the leading emoji of a button is written "#".  Time is counted in ticks *)
(* of the Moscow wall clock; a calendar day has DayLen ticks and the clock *)
(* texts a user can type are the ticks of a day.                           *)
(***************************************************************************)
EXTENDS Integers, Sequences, FiniteSets, TLC

VARIABLES
    now,            \* get_moscow_time(): the wall clock, in ticks
    user_states,    \* the dict user_states: user id -> dialog state
    user_sessions,  \* table user_sessions, rows in insertion order
    activities,     \* table activities (the ledger), rows in id order
    pc,             \* per worker thread: the handler step it is about to run
    loc,            \* per worker thread: the local variables of its handler
    delivered,      \* number of updates the webhook has received
    db_faulty,      \* whether sqlite calls can fail (the code's "return False/None" branches)
    num_threads,    \* how many telebot worker threads run handlers at once
    msg_limit,      \* how many updates the transport delivers
    active_users,   \* the users who send updates
    server_tz,      \* the UTC offset of the server's local time zone, in ticks
    eff_last,       \* per user: the effective time of the last transition begun
    eff_ordered,    \* per user: all transitions so far began with strictly increasing effective times
    pair_starts     \* per redelivered update: how many of its two handlers went on from
                    \* handle_past_activity_time to handle_activity_start

vars == <<now, user_states, user_sessions, activities, pc, loc, delivered,
          db_faulty, num_threads, msg_limit, server_tz, active_users, eff_last, eff_ordered,
          pair_starts>>

---------------------------------------------------------------------------
(* Bounds of the model *)

\* The clock is followed for MaxTime ticks when handlers run one at a time,
\* for MaxPoolTime ticks when they run on the worker pool.
MaxTime == 2
MaxPoolTime == 1

\* Updates delivered when handlers run one at a time / on the worker pool.
MaxMsgs == 4
MaxPoolMsgs == 3

\* When the transport delivers updates twice: the updates it delivers, and how
\* many of them it delivers twice.
MaxRetryMsgs == 4
MaxRedeliveries == 1

\* The scaled calendar: days in a month, months in a year.
DaysPerMonth == 2
MonthsPerYear == 2

---------------------------------------------------------------------------
(* Program data *)

Users == {1, 2}

Threads == {1, 2}

\* The clock texts a user can type in '%H:%M' form, one per tick of the day.
ClockTexts == <<"00:00", "12:00">>

\* The same ticks typed in '%H.%M' form.
DotTexts == <<"00.00", "12.00">>

DayLen == Len(ClockTexts)

BtnZavtrak == "# Zavtrak"
BtnIgry == "# Igry"
BtnSpat == "# Spat"
BtnAddPast == "# Dobavit proshloe dejstvie"
BtnCancel == "# Otmena"
BtnStats == "# Statistika"
BtnOther == "# Drugoe"
BtnMenu == "# Glavnoe menyu"
BtnUtro == "# Utro"

\* The list `activities` of standard activity buttons.
ActivityButtons == {BtnZavtrak, BtnIgry}

\* Texts the transport delivers.
Texts == {BtnZavtrak, BtnSpat, BtnAddPast, BtnCancel, BtnStats, BtnOther, BtnMenu, BtnUtro}
         \cup {ClockTexts[i] : i \in 1..DayLen}

\* Texts the transport delivers from a user: everything from the first user,
\* a start and the opening of the backdating dialog from any other.
TextsOf(user_id) == IF user_id = 1 THEN Texts ELSE {BtnZavtrak, BtnAddPast}

\* Positions of the spaces in a text
Spaces(text) == {i \in 1..Len(text) : SubSeq(text, i, i) = " "}

\* message.text.split(' ', 1)[1] if ' ' in message.text else message.text
SplitTail(text) ==
    IF Spaces(text) = {} THEN text
    ELSE LET first == CHOOSE i \in Spaces(text) : \A j \in Spaces(text) : i <= j
         IN  SubSeq(text, first + 1, Len(text))

---------------------------------------------------------------------------
(* Clock, calendar and stored timestamps *)

Tod(t) == t % DayLen
DayNo(t) == t \div DayLen
Day(t) == DayNo(t) % DaysPerMonth
Month(t) == (DayNo(t) \div DaysPerMonth) % MonthsPerYear
Year(t) == DayNo(t) \div (DaysPerMonth * MonthsPerYear)

\* datetime(year, month, day, <time of day>) localized to MOSCOW_TZ
MkTime(y, m, d, tod) == ((y * MonthsPerYear + m) * DaysPerMonth + d) * DayLen + tod

\* sqlite3's datetime adapter: the value is stored as its ISO text.
Iso(t) == [date |-> <<Year(t), Month(t), Day(t)>>, time |-> Tod(t)]

\* datetime.fromisoformat
FromIso(s) == MkTime(s.date[1], s.date[2], s.date[3], s.time)

NoTime == -1

\* The UTC offset of Europe/Moscow (+03:00), in ticks.
MoscowOffset == 1

\* UTC, the zone of the hosting platform's servers.
ServerUtc == 0

\* Zones a server can run in: UTC or Moscow time.
ServerZones == {ServerUtc, MoscowOffset}

\* sqlite's DATE(start_time): the stored text ends in the zone offset +03:00,
\* which sqlite subtracts before it takes the date, so the date is the UTC one.
SqlDate(s) == DayNo(FromIso(s) - MoscowOffset)

\* sqlite's DATE("now", "localtime"): the date in the server's zone.
SqlToday == DayNo(now - MoscowOffset + server_tz)

\* The clock when the process starts: the last tick of a year, so that the
\* next tick crosses midnight, a month end and a year end.
StartTime == DayLen * DaysPerMonth * MonthsPerYear - 1

\* datetime.strptime(time_str, fmt): the tick of the day, or NoTime for ValueError
Strptime(time_str, fmt) ==
    LET table == CASE fmt = "%H:%M" -> ClockTexts
                   [] fmt = "%H.%M" -> DotTexts
                   [] OTHER -> << >>
        hits == {i \in 1..Len(table) : table[i] = time_str}
    IN  IF hits = {} THEN NoTime ELSE (CHOOSE i \in hits : TRUE) - 1

time_formats == <<"%H:%M", "%H:%M:%S", "%H.%M", "%H.%M.%S">>

\* parse_time_input: the first format that parses, put on the date the clock
\* shows; c_year, c_month, c_day are the clock values of the three
\* get_moscow_time() calls.  NoTime stands for None.
parse_time_input(time_str, c_year, c_month, c_day) ==
    LET ok == {i \in 1..Len(time_formats) : Strptime(time_str, time_formats[i]) # NoTime}
    IN  IF ok = {} THEN NoTime
        ELSE LET first == CHOOSE i \in ok : \A j \in ok : i <= j
             IN  MkTime(Year(c_year), Month(c_month), Day(c_day),
                        Strptime(time_str, time_formats[first]))

---------------------------------------------------------------------------
(* Categories *)

OtherCategory == "Drugoe"

categories ==
    ("Prosnulsya" :> "Son") @@ ("Polistal lentu" :> "Razvlecheniya")
    @@ ("V tualet" :> "Gigiena") @@ ("Gigiena" :> "Gigiena") @@ ("Zavtrak" :> "Eda")
    @@ ("Odevayus" :> "Podgotovka") @@ ("Domoj" :> "Perehod")
    @@ ("Sest za komp" :> "Kompyuter") @@ ("Igry" :> "Igry") @@ ("Ucheba/DZ" :> "Ucheba")
    @@ ("Obed/Uzhin" :> "Eda") @@ ("Otdyh" :> "Razvlecheniya") @@ ("Uborka" :> "Bytovye")
    @@ ("Vechernyaya gigiena" :> "Gigiena") @@ ("Leg v krovat" :> "Otdyh")
    @@ ("Vechernij serfing" :> "Razvlecheniya") @@ ("Spat" :> "Son")
    @@ ("Vyhozhu na uchebu" :> "Ucheba") @@ ("Idu gulyat" :> "Otdyh")
    @@ ("Vremya s blizkimi" :> "Socialnoe")

\* Mutant of get_activity_category: categories.get(activity_name), no default.
get_activity_category_no_default(activity_name) ==
    IF activity_name \in DOMAIN categories THEN categories[activity_name]
    ELSE ""

\* get_activity_category: categories.get(activity_name, "Drugoe")
get_activity_category(activity_name) ==
    IF activity_name \in DOMAIN categories THEN categories[activity_name]
    ELSE OtherCategory

\* f"Drugoe: {custom_activity}": a free-text activity gets the reserved prefix
FormatOther(custom_activity) == "Drugoe: " \o custom_activity

OtherPrefix == "Drugoe:"

\* activity_name.startswith("Drugoe:")
StartsWithOther(activity_name) ==
    /\ Len(activity_name) >= Len(OtherPrefix)
    /\ SubSeq(activity_name, 1, Len(OtherPrefix)) = OtherPrefix

\* the category expression of save_activity
CategoryOf(activity_name) ==
    IF StartsWithOther(activity_name) THEN OtherCategory
    ELSE get_activity_category(activity_name)

---------------------------------------------------------------------------
(* Tables and handler locals *)

\* None: no row / no value
NoRow == [user_id |-> 0, current_activity |-> "", activity_start |-> Iso(0)]

\* The row update_user_session writes.
SessionRow(user_id, current_activity, activity_start) ==
    [user_id |-> user_id, current_activity |-> current_activity,
     activity_start |-> Iso(activity_start)]

\* Indices of the user's rows in a user_sessions table
RowsOf(rows, user_id) == {i \in DOMAIN rows : rows[i].user_id = user_id}

SessionIdx(user_id) == RowsOf(user_sessions, user_id)

\* cur.fetchone() of SELECT * FROM user_sessions WHERE user_id = ?, on a given table
FetchFrom(rows, user_id) ==
    IF RowsOf(rows, user_id) = {} THEN NoRow
    ELSE rows[CHOOSE i \in RowsOf(rows, user_id) : \A j \in RowsOf(rows, user_id) : i <= j]

FetchSession(user_id) == FetchFrom(user_sessions, user_id)

\* Mutant of ActivityRecord: start and end are stored the wrong way round.
ActivityRecordSwapped(user_id, activity_name, start_time, end_time) ==
    [user_id |-> user_id, activity_name |-> activity_name,
     category |-> CategoryOf(activity_name),
     start_time |-> Iso(end_time), end_time |-> Iso(start_time),
     duration |-> start_time - end_time]

\* Mutant of ActivityRecord: a negative duration is stored as zero.
ActivityRecordClamped(user_id, activity_name, start_time, end_time) ==
    [user_id |-> user_id, activity_name |-> activity_name,
     category |-> CategoryOf(activity_name),
     start_time |-> Iso(start_time), end_time |-> Iso(end_time),
     duration |-> IF end_time < start_time THEN 0 ELSE end_time - start_time]

\* The row save_activity inserts into activities.
ActivityRecord(user_id, activity_name, start_time, end_time) ==
    [user_id |-> user_id, activity_name |-> activity_name,
     category |-> CategoryOf(activity_name),
     start_time |-> Iso(start_time), end_time |-> Iso(end_time),
     duration |-> end_time - start_time]

\* Dialog states held in user_states
WaitingForPastActivity == [state |-> "waiting_for_past_activity", arg |-> ""]

\* f"waiting_for_past_time:{activity_name}"
WaitingForPastTime(activity_name) == [state |-> "waiting_for_past_time", arg |-> activity_name]

WaitingForPastCustomActivity == [state |-> "waiting_for_past_custom_activity", arg |-> ""]

WaitingForActivity == [state |-> "waiting_for_activity", arg |-> ""]

\* del user_states[user_id]
DelState(user_id) == [u \in DOMAIN user_states \ {user_id} |-> user_states[u]]

\* user_states[user_id] = value
SetState(user_id, value) ==
    [u \in DOMAIN user_states \cup {user_id} |->
        IF u = user_id THEN value ELSE user_states[u]]

\* What format_detailed_statistics ends with: nothing yet ("none"), the
\* TypeError of unpacking None ("TypeError"), the text "no activities today"
\* ("empty"), or the report on the ledger rows `ids` with the total `total`.
NoStats == [kind |-> "none", ids |-> {}, total |-> 0]

\* Locals of a handler that has not started.
Blank ==
    [user_id |-> 0, text |-> "", activity_name |-> "", current_time |-> NoTime,
     c_year |-> NoTime, c_month |-> NoTime,
     start_time |-> NoTime, custom |-> FALSE, sleep |-> FALSE,
     session |-> NoRow, found |-> FALSE, saved |-> FALSE, stats |-> NoStats,
     pair |-> 0]

\* Steps inside the read-session / append-record / write-session part of a transition
TransitionSteps == {"get_user_session", "save_activity", "update_select", "update_write"}

\* The results a sqlite call can have: TRUE it worked, FALSE it failed.
DbOutcomes == IF db_faulty THEN {TRUE, FALSE} ELSE {TRUE}

\* The results get_detailed_statistics can have: the query ran, no connection
\* (get_db_connection returned None), or the query raised.
StatsOutcomes == IF db_faulty THEN {"ok", "no_conn", "error"} ELSE {"ok"}

---------------------------------------------------------------------------
(* Initial state: run_flask has called init_db, the tables are empty. *)

InitTables ==
    /\ now = StartTime
    /\ user_states = << >>
    /\ user_sessions = << >>
    /\ activities = << >>
    /\ pc = [t \in Threads |-> "idle"]
    /\ loc = [t \in Threads |-> Blank]
    /\ delivered = 0
    /\ eff_last = [u \in Users |-> NoTime]
    /\ eff_ordered = [u \in Users |-> TRUE]
    /\ pair_starts = << >>

\* Handlers run on the worker pool, sqlite calls can fail.
Init ==
    InitTables /\ db_faulty = TRUE /\ num_threads = Cardinality(Threads)
    /\ msg_limit = MaxPoolMsgs /\ server_tz = ServerUtc /\ active_users = {1}

\* One handler at a time, sqlite calls succeed.
InitSerial ==
    InitTables /\ db_faulty = FALSE /\ num_threads = 1 /\ msg_limit = MaxMsgs
    /\ server_tz = ServerUtc /\ active_users = {1}

\* One handler at a time, sqlite calls can fail.
InitFaulty ==
    InitTables /\ db_faulty = TRUE /\ num_threads = 1 /\ msg_limit = MaxMsgs
    /\ server_tz = ServerUtc /\ active_users = {1}

\* Handlers run on the worker pool, sqlite calls succeed.
InitConcurrent ==
    InitTables /\ db_faulty = FALSE /\ num_threads = Cardinality(Threads)
    /\ msg_limit = MaxPoolMsgs /\ server_tz = ServerUtc /\ active_users = {1}

\* One handler at a time, sqlite calls succeed, the server runs in any zone.
InitZones ==
    InitTables /\ db_faulty = FALSE /\ num_threads = 1 /\ msg_limit = MaxMsgs
    /\ server_tz \in ServerZones /\ active_users = {1}

\* Two users, handlers run on the worker pool, sqlite calls succeed.
InitUsers ==
    InitTables /\ db_faulty = FALSE /\ num_threads = Cardinality(Threads)
    /\ msg_limit = MaxPoolMsgs /\ server_tz = ServerUtc /\ active_users = Users

\* One user, handlers run on the worker pool, sqlite calls succeed, the
\* transport delivers some updates twice.
InitRetries ==
    InitTables /\ db_faulty = FALSE /\ num_threads = Cardinality(Threads)
    /\ msg_limit = MaxRetryMsgs /\ server_tz = ServerUtc /\ active_users = {1}

---------------------------------------------------------------------------
(* The clock *)

Tick ==
    /\ now < StartTime + (IF num_threads = 1 THEN MaxTime ELSE MaxPoolTime)
    /\ now' = now + 1
    /\ UNCHANGED <<user_states, user_sessions, activities, pc, loc, delivered,
                   db_faulty, pair_starts, num_threads, msg_limit, server_tz, active_users, eff_last, eff_ordered>>

---------------------------------------------------------------------------
(* webhook -> bot.process_new_updates: the first registered handler whose  *)
(* filter accepts the message is queued for a worker thread.               *)

\* user_states.get(user_id) == value
StateIs(user_id, value) == user_id \in DOMAIN user_states /\ user_states[user_id] = value

Handler(user_id, text) ==
    IF text = BtnMenu THEN "main_menu"
    ELSE IF text = BtnUtro THEN "time_menu"
    ELSE IF text = BtnAddPast THEN "add_past_activity"
    ELSE IF text = BtnOther THEN "other_activity"
    ELSE IF text = BtnCancel THEN "cancel_other_activity"
    ELSE IF StateIs(user_id, WaitingForPastActivity) THEN "handle_past_activity_selection"
    ELSE IF user_id \in DOMAIN user_states /\ user_states[user_id].state = "waiting_for_past_time"
         THEN "handle_past_activity_time"
    ELSE IF StateIs(user_id, WaitingForPastCustomActivity) THEN "handle_past_custom_activity"
    ELSE IF StateIs(user_id, WaitingForActivity) THEN "handle_custom_activity"
    ELSE IF text = BtnStats THEN "show_statistics"
    ELSE IF text \in ActivityButtons THEN "activity_handler"
    ELSE IF text = BtnSpat THEN "sleep_handler"
    ELSE "none"

IdleThreads == {t \in Threads : pc[t] = "idle"}

webhook(user_id, text) ==
    /\ delivered < msg_limit
    /\ user_id \in active_users
    /\ text \in TextsOf(user_id)
    /\ Cardinality(Threads \ IdleThreads) < num_threads
    /\ Handler(user_id, text) # "none"
    /\ LET t == CHOOSE x \in IdleThreads : \A y \in IdleThreads : x <= y
       IN  /\ pc' = [pc EXCEPT ![t] = Handler(user_id, text)]
           /\ loc' = [loc EXCEPT ![t] = [Blank EXCEPT !.user_id = user_id, !.text = text]]
    /\ delivered' = delivered + 1
    /\ UNCHANGED <<now, user_states, user_sessions, activities, db_faulty, pair_starts, num_threads, msg_limit, server_tz, active_users,
                   eff_last, eff_ordered>>

\* The transport delivers again the update thread o is still handling (its
\* handler has not reached handle_activity_start yet): the filters are
\* evaluated on the dialog state of this moment and the copy is queued for
\* another worker.
redeliver(o) ==
    /\ Len(pair_starts) < MaxRedeliveries
    /\ pc[o] \notin {"idle", "stopped"} /\ loc[o].text # "" /\ loc[o].pair = 0
    /\ Cardinality(Threads \ IdleThreads) < num_threads
    /\ Handler(loc[o].user_id, loc[o].text) # "none"
    /\ LET t == CHOOSE x \in IdleThreads : \A y \in IdleThreads : x <= y
           k == Len(pair_starts) + 1
       IN  /\ pc' = [pc EXCEPT ![t] = Handler(loc[o].user_id, loc[o].text)]
           /\ loc' = [loc EXCEPT ![t] = [Blank EXCEPT !.user_id = loc[o].user_id,
                                                      !.text = loc[o].text, !.pair = k],
                                 ![o].pair = k]
    /\ pair_starts' = Append(pair_starts, 0)
    /\ UNCHANGED <<now, user_states, user_sessions, activities, delivered, db_faulty, num_threads,
                   msg_limit, server_tz, active_users, eff_last, eff_ordered>>

\* The handler of thread t ends (returns, or dies on an exception telebot logs).
Finish(t) ==
    /\ pc' = [pc EXCEPT ![t] = "idle"]
    /\ loc' = [loc EXCEPT ![t] = Blank]

---------------------------------------------------------------------------
(* Dialog handlers *)

\* main_menu: the dialog state is dropped and the main keyboard is sent
main_menu(t) ==
    /\ pc[t] = "main_menu"
    /\ user_states' = IF loc[t].user_id \in DOMAIN user_states
                      THEN DelState(loc[t].user_id) ELSE user_states
    /\ Finish(t)
    /\ UNCHANGED <<now, user_sessions, activities, delivered, db_faulty, pair_starts, num_threads, msg_limit,
                   server_tz, active_users, eff_last, eff_ordered>>

\* time_menu: the dialog state is dropped and the keyboard of the part of the
\* day is sent
time_menu(t) ==
    /\ pc[t] = "time_menu"
    /\ user_states' = IF loc[t].user_id \in DOMAIN user_states
                      THEN DelState(loc[t].user_id) ELSE user_states
    /\ Finish(t)
    /\ UNCHANGED <<now, user_sessions, activities, delivered, db_faulty, pair_starts, num_threads, msg_limit,
                   server_tz, active_users, eff_last, eff_ordered>>

other_activity(t) ==
    /\ pc[t] = "other_activity"
    /\ user_states' = SetState(loc[t].user_id,
                          IF StateIs(loc[t].user_id, WaitingForPastActivity)
                          THEN WaitingForPastCustomActivity ELSE WaitingForActivity)
    /\ Finish(t)
    /\ UNCHANGED <<now, user_sessions, activities, delivered, db_faulty, pair_starts, num_threads, msg_limit,
                   server_tz, active_users, eff_last, eff_ordered>>

handle_past_custom_activity(t) ==
    /\ pc[t] = "handle_past_custom_activity"
    /\ user_states' = SetState(loc[t].user_id, WaitingForPastTime(FormatOther(loc[t].text)))
    /\ Finish(t)
    /\ UNCHANGED <<now, user_sessions, activities, delivered, db_faulty, pair_starts, num_threads, msg_limit,
                   server_tz, active_users, eff_last, eff_ordered>>

add_past_activity(t) ==
    /\ pc[t] = "add_past_activity"
    /\ user_states' = SetState(loc[t].user_id, WaitingForPastActivity)
    /\ Finish(t)
    /\ UNCHANGED <<now, user_sessions, activities, delivered, db_faulty, pair_starts, num_threads, msg_limit, server_tz, active_users,
                   eff_last, eff_ordered>>

\* Mutant of cancel_other_activity: the dialog state is kept.
cancel_other_activity_keeping(t) ==
    /\ pc[t] = "cancel_other_activity"
    /\ Finish(t)
    /\ UNCHANGED <<now, user_states, user_sessions, activities, delivered, db_faulty, pair_starts, num_threads,
                   msg_limit, server_tz, active_users, eff_last, eff_ordered>>

cancel_other_activity(t) ==
    /\ pc[t] = "cancel_other_activity"
    /\ user_states' = IF loc[t].user_id \in DOMAIN user_states
                      THEN DelState(loc[t].user_id) ELSE user_states
    /\ Finish(t)
    /\ UNCHANGED <<now, user_sessions, activities, delivered, db_faulty, pair_starts, num_threads, msg_limit, server_tz, active_users,
                   eff_last, eff_ordered>>

\* Mutant of handle_past_activity_selection: the chosen activity starts now.
handle_past_activity_selection_starting(t) ==
    /\ pc[t] = "handle_past_activity_selection"
    /\ pc' = [pc EXCEPT ![t] = "get_user_session"]
    /\ loc' = [loc EXCEPT ![t].activity_name = SplitTail(loc[t].text),
                          ![t].current_time = now, ![t].text = ""]
    /\ UNCHANGED <<now, user_states, user_sessions, activities, delivered, db_faulty, pair_starts, num_threads,
                   msg_limit, server_tz, active_users, eff_last, eff_ordered>>

handle_past_activity_selection(t) ==
    /\ pc[t] = "handle_past_activity_selection"
    /\ user_states' = SetState(loc[t].user_id, WaitingForPastTime(SplitTail(loc[t].text)))
    /\ Finish(t)
    /\ UNCHANGED <<now, user_sessions, activities, delivered, db_faulty, pair_starts, num_threads, msg_limit, server_tz, active_users,
                   eff_last, eff_ordered>>

---------------------------------------------------------------------------
(* Entry of handle_activity_start / handle_sleep_activity: the effective    *)
(* time is fixed and register_user is called.                              *)

\* Another worker is inside a transition of the same user.
OtherInTransition(t, user_id) ==
    \E o \in Threads \ {t} : loc[o].user_id = user_id /\ pc[o] \in TransitionSteps

BeginTransition(t, activity_name, current_time, custom, sleep) ==
    /\ pc' = [pc EXCEPT ![t] = "get_user_session"]
    /\ loc' = [loc EXCEPT ![t].activity_name = activity_name,
                          ![t].current_time = current_time,
                          ![t].custom = custom,
                          ![t].sleep = sleep,
                          ![t].text = "", ![t].start_time = NoTime,
                          ![t].c_year = NoTime, ![t].c_month = NoTime]
    /\ eff_ordered' = [eff_ordered EXCEPT ![loc[t].user_id] =
                          /\ @
                          /\ current_time > eff_last[loc[t].user_id]
                          /\ ~OtherInTransition(t, loc[t].user_id)]
    /\ eff_last' = [eff_last EXCEPT ![loc[t].user_id] =
                       IF eff_ordered'[loc[t].user_id] THEN current_time ELSE NoTime]

\* Mutant of IsFuture: the check is missing.
IsFutureNever(start_time, current_time) == FALSE

\* Mutant of IsFuture: the current instant counts as future.
IsFutureOrNow(start_time, current_time) == start_time >= current_time

\* start_time > current_time: the entered time is in the future
IsFuture(start_time, current_time) == start_time > current_time

\* Some format of time_formats parses the text.
Parses(time_str) ==
    \E i \in 1..Len(time_formats) : Strptime(time_str, time_formats[i]) # NoTime

\* Mutant of handle_past_activity_time: a rejected text ends the dialog.
handle_past_activity_time_resetting(t) ==
    /\ pc[t] = "handle_past_activity_time"
    /\ LET user_id == loc[t].user_id
       IN  IF \/ user_id \notin DOMAIN user_states
              \/ user_states[user_id].state # "waiting_for_past_time"
              \/ ~Parses(loc[t].text)
           THEN /\ Finish(t)
                /\ user_states' = IF user_id \in DOMAIN user_states
                                  THEN DelState(user_id) ELSE user_states
           ELSE /\ pc' = [pc EXCEPT ![t] = "parse_month"]
                /\ loc' = [loc EXCEPT ![t].activity_name = user_states[user_id].arg,
                                      ![t].c_year = now]
                /\ user_states' = user_states
    /\ UNCHANGED <<now, user_sessions, activities, delivered, db_faulty, pair_starts,
                   num_threads, msg_limit, server_tz, active_users, eff_last, eff_ordered>>

\* handle_past_activity_time up to the first clock read of parse_time_input:
\* the dialog state is read, the text is parsed, get_moscow_time().year is read
handle_past_activity_time(t) ==
    /\ pc[t] = "handle_past_activity_time"
    /\ LET user_id == loc[t].user_id
       IN  IF \/ user_id \notin DOMAIN user_states
              \/ user_states[user_id].state # "waiting_for_past_time"
              \/ ~Parses(loc[t].text)
           THEN Finish(t)
           ELSE /\ pc' = [pc EXCEPT ![t] = "parse_month"]
                /\ loc' = [loc EXCEPT ![t].activity_name = user_states[user_id].arg,
                                      ![t].c_year = now]
    /\ UNCHANGED <<now, user_states, user_sessions, activities, delivered, db_faulty, pair_starts,
                   num_threads, msg_limit, server_tz, active_users, eff_last, eff_ordered>>

\* parse_time_input: get_moscow_time().month is read
parse_month(t) ==
    /\ pc[t] = "parse_month"
    /\ pc' = [pc EXCEPT ![t] = "parse_day"]
    /\ loc' = [loc EXCEPT ![t].c_month = now]
    /\ UNCHANGED <<now, user_states, user_sessions, activities, delivered, db_faulty, pair_starts,
                   num_threads, msg_limit, server_tz, active_users, eff_last, eff_ordered>>

\* parse_time_input: get_moscow_time().day is read and the result is built
parse_day(t) ==
    /\ pc[t] = "parse_day"
    /\ pc' = [pc EXCEPT ![t] = "past_time_check"]
    /\ loc' = [loc EXCEPT ![t].start_time =
                              parse_time_input(loc[t].text, loc[t].c_year, loc[t].c_month, now)]
    /\ UNCHANGED <<now, user_states, user_sessions, activities, delivered, db_faulty, pair_starts,
                   num_threads, msg_limit, server_tz, active_users, eff_last, eff_ordered>>

\* handle_past_activity_time from the future check on
past_time_check(t) ==
    /\ pc[t] = "past_time_check"
    /\ LET user_id == loc[t].user_id
       IN  IF IsFuture(loc[t].start_time, now) \/ user_id \notin DOMAIN user_states
           THEN /\ Finish(t)
                /\ UNCHANGED <<user_states, eff_last, eff_ordered, pair_starts>>
           ELSE /\ user_states' = DelState(user_id)
                /\ BeginTransition(t, loc[t].activity_name, loc[t].start_time, TRUE, FALSE)
                /\ pair_starts' = IF loc[t].pair = 0 THEN pair_starts
                                  ELSE [pair_starts EXCEPT ![loc[t].pair] = @ + 1]
    /\ UNCHANGED <<now, user_sessions, activities, delivered, db_faulty, num_threads, msg_limit, server_tz, active_users>>

\* handle_custom_activity: del user_states[user_id] raises KeyError when the
\* state is gone, otherwise the free-text activity starts now
handle_custom_activity(t) ==
    /\ pc[t] = "handle_custom_activity"
    /\ LET user_id == loc[t].user_id
       IN  IF user_id \notin DOMAIN user_states
           THEN /\ Finish(t)
                /\ UNCHANGED <<user_states, eff_last, eff_ordered>>
           ELSE /\ user_states' = DelState(user_id)
                /\ BeginTransition(t, FormatOther(loc[t].text), now, FALSE, FALSE)
    /\ UNCHANGED <<now, user_sessions, activities, delivered, db_faulty, pair_starts, num_threads, msg_limit,
                   server_tz, active_users>>

activity_handler(t) ==
    /\ pc[t] = "activity_handler"
    /\ LET user_id == loc[t].user_id
       IN  IF user_id \in DOMAIN user_states /\ user_states[user_id] = WaitingForPastActivity
           THEN /\ Finish(t)
                /\ UNCHANGED <<eff_last, eff_ordered>>
           ELSE BeginTransition(t, SplitTail(loc[t].text), now, FALSE, FALSE)
    /\ UNCHANGED <<now, user_states, user_sessions, activities, delivered, db_faulty, pair_starts,
                   num_threads, msg_limit, server_tz, active_users>>

sleep_handler(t) ==
    /\ pc[t] = "sleep_handler"
    /\ BeginTransition(t, "Spat", now, FALSE, TRUE)
    /\ UNCHANGED <<now, user_states, user_sessions, activities, delivered, db_faulty, pair_starts,
                   num_threads, msg_limit, server_tz, active_users>>

---------------------------------------------------------------------------
(* The transition: read the session, close it, write the new one. *)

\* session and session['current_activity'] and session['activity_start']
HasOpenSession(session) == session # NoRow /\ session.current_activity # ""

get_user_session(t) ==
    /\ pc[t] = "get_user_session"
    /\ \E ok \in DbOutcomes :
         LET session == IF ok THEN FetchSession(loc[t].user_id) ELSE NoRow
         IN  /\ loc' = [loc EXCEPT ![t].session = session]
             /\ pc' = [pc EXCEPT ![t] = IF HasOpenSession(session) THEN "save_activity"
                                        ELSE "update_select"]
    /\ UNCHANGED <<now, user_states, user_sessions, activities, delivered, db_faulty, pair_starts,
                   num_threads, msg_limit, server_tz, active_users, eff_last, eff_ordered>>

\* Mutant of InsertActivity: the new row replaces the user's earlier rows.
ReplaceActivity(rows, row) ==
    Append(SelectSeq(rows, LAMBDA r : r.user_id # row.user_id), row)

\* INSERT INTO activities (...) VALUES (...): the row gets the next id
InsertActivity(rows, row) == Append(rows, row)

save_activity(t) ==
    /\ pc[t] = "save_activity"
    /\ \E ok \in DbOutcomes :
         /\ activities' =
              IF ok THEN InsertActivity(activities,
                                ActivityRecord(loc[t].user_id, loc[t].session.current_activity,
                                               FromIso(loc[t].session.activity_start),
                                               loc[t].current_time))
              ELSE activities
         /\ loc' = [loc EXCEPT ![t].saved = ok]
    /\ pc' = [pc EXCEPT ![t] = "update_select"]
    /\ UNCHANGED <<now, user_states, user_sessions, delivered, db_faulty, pair_starts, num_threads, msg_limit, server_tz, active_users,
                   eff_last, eff_ordered>>

\* After update_user_session: handle_activity_start ends with its message,
\* handle_sleep_activity goes on to the statistics.
AfterUpdate(t) ==
    IF loc[t].sleep
    THEN /\ pc' = [pc EXCEPT ![t] = "sleep_statistics"]
         /\ loc' = loc
    ELSE Finish(t)

\* update_user_session: the SELECT
update_select(t) ==
    /\ pc[t] = "update_select"
    /\ \E ok \in DbOutcomes :
         IF ok
         THEN /\ loc' = [loc EXCEPT ![t].found = (SessionIdx(loc[t].user_id) # {})]
              /\ pc' = [pc EXCEPT ![t] = "update_write"]
         ELSE AfterUpdate(t)
    /\ UNCHANGED <<now, user_states, user_sessions, activities, delivered, db_faulty, pair_starts,
                   num_threads, msg_limit, server_tz, active_users, eff_last, eff_ordered>>

\* Mutant of PrimaryKeyFree: user_id is no primary key.
NoPrimaryKey(user_id) == TRUE

\* user_id INTEGER PRIMARY KEY: an INSERT is refused while the user has a row
PrimaryKeyFree(user_id) == SessionIdx(user_id) = {}

\* Mutant of UpdateSession: the UPDATE has no WHERE clause.
UpdateEverySession(rows, user_id, current_activity, activity_start) ==
    [i \in DOMAIN rows |->
        [rows[i] EXCEPT !.current_activity = current_activity,
                        !.activity_start = Iso(activity_start)]]

\* UPDATE user_sessions SET current_activity = ?, activity_start = ? WHERE user_id = ?
UpdateSession(rows, user_id, current_activity, activity_start) ==
    [i \in DOMAIN rows |->
        IF rows[i].user_id = user_id
        THEN [rows[i] EXCEPT !.current_activity = current_activity,
                             !.activity_start = Iso(activity_start)]
        ELSE rows[i]]

\* update_user_session: the UPDATE or the INSERT, and the commit
update_write(t) ==
    /\ pc[t] = "update_write"
    /\ LET user_id == loc[t].user_id
           row == SessionRow(user_id, loc[t].activity_name, loc[t].current_time)
       IN  IF loc[t].found
           THEN /\ user_sessions' = UpdateSession(user_sessions, user_id,
                                                  loc[t].activity_name, loc[t].current_time)
           ELSE IF PrimaryKeyFree(user_id)
           THEN /\ user_sessions' = Append(user_sessions, row)
           ELSE /\ user_sessions' = user_sessions
    /\ AfterUpdate(t)
    /\ UNCHANGED <<now, user_states, activities, delivered, db_faulty, pair_starts, num_threads, msg_limit, server_tz, active_users,
                   eff_last, eff_ordered>>

---------------------------------------------------------------------------
(* Statistics *)

\* SUM(duration) over the ledger rows ids
RECURSIVE SumDuration(_)
SumDuration(ids) ==
    IF ids = {} THEN 0
    ELSE LET i == CHOOSE x \in ids : TRUE
         IN  activities[i].duration + SumDuration(ids \ {i})

\* The rows both queries of get_detailed_statistics select:
\* WHERE user_id = ? AND DATE(start_time) = DATE("now", "localtime")
TodayRows(user_id) ==
    {i \in DOMAIN activities :
        activities[i].user_id = user_id /\ SqlDate(activities[i].start_time) = SqlToday}

\* format_detailed_statistics on the result of get_detailed_statistics
format_detailed_statistics(user_id, outcome) ==
    IF outcome = "no_conn" THEN [NoStats EXCEPT !.kind = "TypeError"]
    ELSE IF outcome = "error" \/ TodayRows(user_id) = {}
         THEN [NoStats EXCEPT !.kind = "empty"]
    ELSE [kind |-> "report", ids |-> TodayRows(user_id),
          total |-> SumDuration(TodayRows(user_id))]

\* Mutant of show_statistics: the rows reported are removed from the ledger.
show_statistics_purging(t) ==
    /\ pc[t] = "show_statistics"
    /\ \E outcome \in StatsOutcomes :
         loc' = [loc EXCEPT ![t].stats = format_detailed_statistics(loc[t].user_id, outcome)]
    /\ pc' = [pc EXCEPT ![t] = "send_statistics"]
    /\ activities' = SelectSeq(activities, LAMBDA r : r.user_id # loc[t].user_id)
    /\ UNCHANGED <<now, user_states, user_sessions, delivered, db_faulty, pair_starts,
                   num_threads, msg_limit, server_tz, active_users, eff_last, eff_ordered>>

\* show_statistics up to the reply
show_statistics(t) ==
    /\ pc[t] = "show_statistics"
    /\ \E outcome \in StatsOutcomes :
         loc' = [loc EXCEPT ![t].stats = format_detailed_statistics(loc[t].user_id, outcome)]
    /\ pc' = [pc EXCEPT ![t] = "send_statistics"]
    /\ UNCHANGED <<now, user_states, user_sessions, activities, delivered, db_faulty, pair_starts,
                   num_threads, msg_limit, server_tz, active_users, eff_last, eff_ordered>>

\* handle_sleep_activity after update_user_session, up to the last reply
sleep_statistics(t) ==
    /\ pc[t] = "sleep_statistics"
    /\ \E outcome \in StatsOutcomes :
         loc' = [loc EXCEPT ![t].stats = format_detailed_statistics(loc[t].user_id, outcome)]
    /\ pc' = [pc EXCEPT ![t] = "send_statistics"]
    /\ UNCHANGED <<now, user_states, user_sessions, activities, delivered, db_faulty, pair_starts,
                   num_threads, msg_limit, server_tz, active_users, eff_last, eff_ordered>>

\* bot.send_message(message.chat.id, stats_text), or the TypeError ends the handler
send_statistics(t) ==
    /\ pc[t] = "send_statistics"
    /\ Finish(t)
    /\ UNCHANGED <<now, user_states, user_sessions, activities, delivered, db_faulty, pair_starts,
                   num_threads, msg_limit, server_tz, active_users, eff_last, eff_ordered>>

---------------------------------------------------------------------------
(* Process shutdown: app.run returns or the process is signalled.  run_flask *)
(* installs no handler for it: the workers end where they are and the      *)
(* memory (user_states) is gone; the database file stays as it is.         *)

Stopped == \A t \in Threads : pc[t] = "stopped"

shutdown ==
    /\ ~Stopped
    /\ pc' = [t \in Threads |-> "stopped"]
    /\ loc' = [t \in Threads |-> Blank]
    /\ user_states' = << >>
    /\ UNCHANGED <<now, user_sessions, activities, delivered, db_faulty, pair_starts, num_threads, msg_limit,
                   server_tz, active_users, eff_last, eff_ordered>>

---------------------------------------------------------------------------

Next ==
    \/ Tick
    \/ shutdown
    \/ \E user_id \in Users, text \in Texts : webhook(user_id, text)
    \/ \E t \in Threads :
         \/ main_menu(t)
         \/ time_menu(t)
         \/ other_activity(t)
         \/ handle_past_custom_activity(t)
         \/ handle_custom_activity(t)
         \/ add_past_activity(t)
         \/ cancel_other_activity(t)
         \/ handle_past_activity_selection(t)
         \/ handle_past_activity_time(t)
         \/ parse_month(t)
         \/ parse_day(t)
         \/ past_time_check(t)
         \/ activity_handler(t)
         \/ sleep_handler(t)
         \/ get_user_session(t)
         \/ save_activity(t)
         \/ update_select(t)
         \/ update_write(t)
         \/ show_statistics(t)
         \/ sleep_statistics(t)
         \/ send_statistics(t)

Spec == Init /\ [][Next]_vars

SpecSerial == InitSerial /\ [][Next]_vars

SpecFaulty == InitFaulty /\ [][Next]_vars

SpecConcurrent == InitConcurrent /\ [][Next]_vars

SpecZones == InitZones /\ [][Next]_vars

SpecUsers == InitUsers /\ [][Next]_vars

\* The program under a transport that retries updates
NextRetries == Next \/ \E t \in Threads : redeliver(t)

SpecRetries == InitRetries /\ [][NextRetries]_vars

---------------------------------------------------------------------------
(* Properties *)

\* The ledger rows of one user, in insertion order
UserRecords(user_id) == SelectSeq(activities, LAMBDA r : r.user_id = user_id)

Tiles(records) ==
    \A i \in 1..(Len(records) - 1) : records[i].end_time = records[i + 1].start_time

\* C1: while a user's transitions are called one after another with strictly
\* increasing effective times, the user's ledger records tile the timeline:
\* each record ends exactly where the next one starts.
C1_LedgerTilesTimeline ==
    \A u \in Users : eff_ordered[u] => Tiles(UserRecords(u))

\* C2: in every reachable state each user has at most one row in user_sessions,
\* also when two transitions of a user without a row run concurrently.
C2_AtMostOneSession ==
    \A u \in Users : Cardinality(SessionIdx(u)) <= 1

\* C2 witness: a worker is about to INSERT (its SELECT found no row) although
\* a concurrent transition has meanwhile inserted the user's row.
C2_InsertRace ==
    \E t \in Threads :
        /\ pc[t] = "update_write"
        /\ ~loc[t].found
        /\ SessionIdx(loc[t].user_id) # {}

\* Thread t takes the last step of its transition.
LastStep(t) ==
    /\ pc[t] \in {"update_select", "update_write"}
    /\ pc'[t] \in {"idle", "sleep_statistics"}

\* C3: a transition on a user with an open session is all-or-nothing: when it
\* ends, either the closing record was appended and the session is the new
\* activity, or neither the ledger nor the session table changed.
C3_AllOrNothing ==
    [][\A t \in Threads :
          (LastStep(t) /\ HasOpenSession(FetchSession(loc[t].user_id)))
          => \/ /\ loc[t].saved
                /\ FetchFrom(user_sessions', loc[t].user_id) =
                     SessionRow(loc[t].user_id, loc[t].activity_name, loc[t].current_time)
             \/ /\ ~loc[t].saved
                /\ user_sessions' = user_sessions]_vars

\* Steps a worker takes after it has read the session and before its
\* session write is done
AfterRead == {"save_activity", "update_select", "update_write"}

\* C4: transitions of one user are serialized: no two workers are between the
\* session read and the session write for the same user, and the session a
\* worker has read is still the stored one until the worker has written.
C4_TransitionsSerialized ==
    /\ \A t1, t2 \in Threads :
          (t1 # t2 /\ pc[t1] \in AfterRead /\ pc[t2] \in AfterRead)
          => loc[t1].user_id # loc[t2].user_id
    /\ \A t \in Threads :
          pc[t] \in AfterRead => FetchSession(loc[t].user_id) = loc[t].session

\* Two workers have each appended a closing record for the same stored session.
ClosedTwice ==
    \E t1, t2 \in Threads :
        /\ t1 # t2
        /\ pc[t1] \in {"update_select", "update_write"} /\ loc[t1].saved
        /\ pc[t2] \in {"update_select", "update_write"} /\ loc[t2].saved
        /\ loc[t1].user_id = loc[t2].user_id
        /\ loc[t1].session = loc[t2].session

\* Thread t overwrites the stored open session in this step.
ReplacesSession(t) ==
    /\ pc[t] = "update_write" /\ pc'[t] \in {"idle", "sleep_statistics"}
    /\ loc[t].found
    /\ HasOpenSession(FetchSession(loc[t].user_id))

\* C5: every replaced session yields exactly one ledger record: no session is
\* closed into two records, and a session is overwritten only by the
\* transition that has appended the record closing it.
C5_OneRecordPerSession ==
    [][/\ ~ClosedTwice'
       /\ \A t \in Threads :
            ReplacesSession(t) =>
               /\ loc[t].saved
               /\ loc[t].session = FetchSession(loc[t].user_id)
               /\ \E i \in DOMAIN activities :
                    /\ activities[i].user_id = loc[t].user_id
                    /\ activities[i].activity_name = loc[t].session.current_activity
                    /\ activities[i].start_time = loc[t].session.activity_start]_vars

\* Thread t takes a step of its own.
Moves(t) == pc'[t] \notin {pc[t], "stopped"}

\* C6: start_activity(user, X, t) on a user whose session is Active(A, s)
\* appends exactly the record {user, A, classify(A), s, t, t - s} and leaves
\* the session Active(X, t); on an Idle user it appends nothing and leaves the
\* session Active(X, t); t is the backdated time if given, otherwise now.
C6_StartActivity ==
    [][\A t \in Threads :
         LET u == loc[t].user_id
             stored == FetchSession(u)
         IN  /\ (pc[t] = "activity_handler" /\ pc'[t] = "get_user_session")
                   => loc'[t].current_time = now
             /\ (pc[t] = "past_time_check" /\ pc'[t] = "get_user_session")
                   => loc'[t].current_time = loc[t].start_time
             /\ (pc[t] = "get_user_session" /\ ~loc[t].sleep /\ Moves(t))
                   => /\ UNCHANGED <<activities, user_sessions>>
                      /\ pc'[t] = IF stored # NoRow THEN "save_activity" ELSE "update_select"
             /\ (pc[t] = "save_activity" /\ ~loc[t].sleep /\ Moves(t))
                   => /\ activities' = Append(activities,
                           [user_id |-> u,
                            activity_name |-> stored.current_activity,
                            category |-> CategoryOf(stored.current_activity),
                            start_time |-> stored.activity_start,
                            end_time |-> Iso(loc[t].current_time),
                            duration |-> loc[t].current_time - FromIso(stored.activity_start)])
                      /\ user_sessions' = user_sessions
                      /\ pc'[t] = "update_select"
             /\ (pc[t] = "update_select" /\ ~loc[t].sleep /\ Moves(t))
                   => /\ UNCHANGED <<activities, user_sessions>>
                      /\ pc'[t] = "update_write"
             /\ (pc[t] = "update_write" /\ ~loc[t].sleep /\ Moves(t))
                   => /\ activities' = activities
                      /\ Cardinality(RowsOf(user_sessions', u)) = 1
                      /\ FetchFrom(user_sessions', u) =
                           [user_id |-> u, current_activity |-> loc[t].activity_name,
                            activity_start |-> Iso(loc[t].current_time)]
                      /\ pc'[t] = "idle"]_vars

\* C6 witness: a start on an Active user has appended the closing record and
\* is about to write the new session.
C6_ClosedAndOpening ==
    \E t \in Threads :
        /\ pc[t] = "update_write" /\ ~loc[t].sleep /\ ~loc[t].custom
        /\ loc[t].saved
        /\ activities # << >>
        /\ activities[Len(activities)].end_time = Iso(loc[t].current_time)
        /\ activities[Len(activities)].duration > 0

\* C7: every ledger record has end_time >= start_time and duration >= 0.
C7_NonNegativeDurations ==
    \A i \in DOMAIN activities :
        /\ FromIso(activities[i].end_time) >= FromIso(activities[i].start_time)
        /\ activities[i].duration >= 0

\* C8: a backdated start earlier than the start of the open session is
\* accepted: the open session is closed with the backdated time as end_time
\* (a record of negative duration) and the new activity opens at that time.
C8_BackdatedBeforeOpenSession ==
    [][\A t \in Threads :
         LET u == loc[t].user_id
             stored == FetchSession(u)
             s == FromIso(stored.activity_start)
         IN  /\ (/\ pc[t] = "past_time_check" /\ Moves(t)
                 /\ u \in DOMAIN user_states
                 /\ loc[t].start_time <= now
                 /\ HasOpenSession(stored) /\ loc[t].start_time < s)
                   => /\ pc'[t] = "get_user_session"
                      /\ loc'[t].custom
                      /\ loc'[t].current_time = loc[t].start_time
                      /\ loc'[t].activity_name = user_states[u].arg
             /\ (/\ pc[t] = "save_activity" /\ Moves(t) /\ loc[t].custom
                 /\ loc[t].current_time < s)
                   => /\ Len(activities') = Len(activities) + 1
                      /\ activities'[Len(activities')].start_time = stored.activity_start
                      /\ activities'[Len(activities')].end_time = Iso(loc[t].current_time)
                      /\ activities'[Len(activities')].duration = loc[t].current_time - s
                      /\ activities'[Len(activities')].duration < 0
             /\ (/\ pc[t] = "update_write" /\ Moves(t) /\ loc[t].custom
                 /\ HasOpenSession(stored) /\ loc[t].current_time < s)
                   => FetchFrom(user_sessions', u) =
                        [user_id |-> u, current_activity |-> loc[t].activity_name,
                         activity_start |-> Iso(loc[t].current_time)]]_vars

\* C8 witness: a backdated start has closed the later-started open session
\* into a record of negative duration and is about to open the new activity.
C8_NegativeRecordWritten ==
    \E t \in Threads :
        /\ pc[t] = "update_write" /\ loc[t].custom /\ loc[t].saved
        /\ activities # << >>
        /\ activities[Len(activities)].duration < 0
        /\ activities[Len(activities)].end_time = Iso(loc[t].current_time)

\* C9: in every reachable state the start of each stored session is not later
\* than the wall clock.
C9_SessionNotInFuture ==
    \A i \in DOMAIN user_sessions : FromIso(user_sessions[i].activity_start) <= now

\* C9 witness: a session opened by a backdated start is stored, with a start
\* earlier than the clock (its activity is a text only the backdating dialog
\* turns into an activity name).
C9_BackdatedSessionStored ==
    \E u \in Users :
        /\ eff_last[u] # NoTime /\ eff_last[u] < now
        /\ u \notin DOMAIN user_states
        /\ FetchSession(u) # NoRow
        /\ FetchSession(u).current_activity \in {SplitTail(ClockTexts[i]) : i \in 1..DayLen}
        /\ FromIso(FetchSession(u).activity_start) = eff_last[u]

\* C10: an entered time later than the current time is rejected (the handler
\* ends, nothing is stored, the dialog state stays); a time equal to or
\* earlier than the current time goes on to start_activity with that time.
C10_FutureRejected ==
    [][\A t \in Threads :
         (pc[t] = "past_time_check" /\ Moves(t)) =>
            /\ loc[t].start_time > now
                 => /\ pc'[t] = "idle"
                    /\ UNCHANGED <<user_states, user_sessions, activities>>
            /\ (loc[t].start_time <= now /\ loc[t].user_id \in DOMAIN user_states)
                 => /\ pc'[t] = "get_user_session"
                    /\ loc'[t].current_time = loc[t].start_time]_vars

\* C10 witness: the future check is reached with an entered time later than
\* the clock.
C10_FutureTimeEntered ==
    \E t \in Threads : pc[t] = "past_time_check" /\ loc[t].start_time > now

\* Thread t runs handle_past_activity_time for a user who is awaiting a time.
AwaitingTime(t) ==
    /\ loc[t].user_id \in DOMAIN user_states
    /\ user_states[loc[t].user_id].state = "waiting_for_past_time"

\* C11: a rejected backdated time (no format parses it, or it is later than
\* the clock) ends the handler with the session table, the ledger and the
\* dialog state unchanged: the user is still awaiting a time for the chosen
\* activity, and a text that parses goes on with that activity.
C11_RejectionKeepsDialog ==
    [][\A t \in Threads :
         /\ (pc[t] = "handle_past_activity_time" /\ Moves(t) /\ AwaitingTime(t))
               => IF Parses(loc[t].text)
                  THEN /\ pc'[t] = "parse_month"
                       /\ loc'[t].activity_name = user_states[loc[t].user_id].arg
                       /\ UNCHANGED <<user_states, user_sessions, activities>>
                  ELSE /\ pc'[t] = "idle"
                       /\ UNCHANGED <<user_states, user_sessions, activities>>
                       /\ user_states'[loc[t].user_id].state = "waiting_for_past_time"
         /\ (pc[t] = "past_time_check" /\ Moves(t) /\ loc[t].start_time > now)
               => /\ pc'[t] = "idle"
                  /\ UNCHANGED <<user_states, user_sessions, activities>>]_vars

\* C11 witness: a user awaiting a time has sent a text no format parses.
C11_UnrecognizedTimeEntered ==
    \E t \in Threads :
        /\ pc[t] = "handle_past_activity_time"
        /\ AwaitingTime(t)
        /\ ~Parses(loc[t].text)

\* C12: on success parse_time_input returns the entered time of day on the
\* calendar date the clock shows at one single instant between the start and
\* the end of the call, also when the clock crosses midnight, a month end or
\* a year end during the call.
C12_DateOfOneInstant ==
    [][\A t \in Threads :
         (pc[t] = "parse_day" /\ Moves(t))
         => /\ Tod(loc'[t].start_time) = Tod(parse_time_input(loc[t].text, now, now, now))
            /\ \E i \in loc[t].c_year..now :
                  DayNo(loc'[t].start_time) = DayNo(i)]_vars

\* The user's ledger rows whose start_time falls on the Moscow calendar day
\* of the clock.
MoscowDayRows(user_id) ==
    {i \in DOMAIN activities :
        /\ activities[i].user_id = user_id
        /\ DayNo(FromIso(activities[i].start_time)) = DayNo(now)}

\* C13: end_of_day reads the clock once; on an Idle user it appends nothing,
\* on an Active user it appends the record closing the open session at that
\* time; it leaves the session Active(Spat, that time); the statistics of the
\* same call are computed on the ledger after the close: they are the user's
\* records of the day, the record just closed included.
C13_EndOfDay ==
    [][\A t \in Threads :
         LET u == loc[t].user_id
             stored == FetchSession(u)
         IN  /\ (pc[t] = "sleep_handler" /\ Moves(t))
                   => loc'[t].current_time = now /\ loc'[t].activity_name = "Spat"
             /\ (pc[t] = "get_user_session" /\ loc[t].sleep /\ Moves(t))
                   => /\ UNCHANGED <<activities, user_sessions>>
                      /\ pc'[t] = IF HasOpenSession(stored) THEN "save_activity"
                                  ELSE "update_select"
             /\ (pc[t] = "save_activity" /\ loc[t].sleep /\ Moves(t))
                   => /\ activities' = Append(activities,
                           [user_id |-> u,
                            activity_name |-> stored.current_activity,
                            category |-> CategoryOf(stored.current_activity),
                            start_time |-> stored.activity_start,
                            end_time |-> Iso(loc[t].current_time),
                            duration |-> loc[t].current_time - FromIso(stored.activity_start)])
                      /\ user_sessions' = user_sessions
             /\ (pc[t] = "update_write" /\ loc[t].sleep /\ Moves(t))
                   => /\ activities' = activities
                      /\ FetchFrom(user_sessions', u) =
                           [user_id |-> u, current_activity |-> "Spat",
                            activity_start |-> Iso(loc[t].current_time)]
                      /\ pc'[t] = "sleep_statistics"
             /\ (pc[t] = "sleep_statistics" /\ Moves(t))
                   => /\ UNCHANGED <<activities, user_sessions>>
                      /\ loc'[t].stats.ids = MoscowDayRows(u)
                      /\ loc'[t].stats.total = SumDuration(MoscowDayRows(u))]_vars

\* C14: the ledger is append-only: in every step of the program every
\* existing ledger record stays as it is and where it is, and at most one
\* record is added at the end.
C14_LedgerAppendOnly ==
    [][/\ Len(activities') \in {Len(activities), Len(activities) + 1}
       /\ \A i \in DOMAIN activities : activities'[i] = activities[i]]_vars

\* C14 witness: a record has been appended to a ledger that already held one.
C14_SecondRecordAppended == Len(activities) >= 2

\* The reserved prefix of free-text activity names.
ReservedPrefix == "Drugoe: "

\* classify(name): "Drugoe" for a name with the reserved prefix, the table
\* entry for a known name, "Drugoe" for any other name.
Classify(name) ==
    IF Len(name) >= Len(ReservedPrefix) /\ SubSeq(name, 1, Len(ReservedPrefix)) = ReservedPrefix
    THEN "Drugoe"
    ELSE IF name \in DOMAIN categories THEN categories[name]
    ELSE "Drugoe"

\* C18: the category stored with every ledger record is classify(activity_name).
C18_CategoryIsClassify ==
    \A i \in DOMAIN activities :
        activities[i].category = Classify(activities[i].activity_name)

\* C18 witness: the ledger holds a record of a free-text activity (a name
\* with the reserved prefix), stored with the category "Drugoe".
C18_FreeTextRecorded ==
    \E i \in DOMAIN activities :
        /\ activities[i].activity_name = FormatOther(ClockTexts[1])
        /\ activities[i].category = OtherCategory

\* C19: on process shutdown every Active session is closed into a ledger
\* record and cleared: once the process has stopped, no user has an open
\* session.
C19_NoOpenSessionAfterShutdown ==
    Stopped => \A u \in Users : ~HasOpenSession(FetchSession(u))

\* The user thread t acts for in this step (the step may be the dispatch).
Actor(t) == IF pc[t] = "idle" THEN loc'[t].user_id ELSE loc[t].user_id

\* C20: a step taken for user A (dispatch, dialog action or a step of a
\* transition) never changes another user's session row, ledger records or
\* dialog state, whatever the interleaving of the two users' handlers.
C20_UsersIsolated ==
    [][\A t \in Threads : \A b \in Users :
         (Moves(t) /\ b # Actor(t))
         => /\ SelectSeq(user_sessions', LAMBDA r : r.user_id = b)
                 = SelectSeq(user_sessions, LAMBDA r : r.user_id = b)
            /\ SelectSeq(activities', LAMBDA r : r.user_id = b)
                 = SelectSeq(activities, LAMBDA r : r.user_id = b)
            /\ (b \in DOMAIN user_states') = (b \in DOMAIN user_states)
            /\ b \in DOMAIN user_states => user_states'[b] = user_states[b]]_vars

\* C20 witness: a worker is about to UPDATE the session row of one user while
\* another user has an open session.
C20_UpdateBesideOtherSession ==
    \E t \in Threads : \E b \in Users :
        /\ pc[t] = "update_write" /\ loc[t].found
        /\ b # loc[t].user_id
        /\ HasOpenSession(FetchSession(b))

\* The buttons of the known activities, "Spat" included
KnownButtons == ActivityButtons \cup {BtnSpat}

\* The user is in the backdating dialog.
Backdating(user_id) ==
    /\ user_id \in DOMAIN user_states
    /\ user_states[user_id].state \in {"waiting_for_past_activity", "waiting_for_past_time"}

\* C21: while the dialog state is waiting_for_past_activity a known activity
\* button (the sleep button included) goes to the selection handler, which
\* leaves session and ledger alone and moves the dialog to
\* waiting_for_past_time:<activity>; as long as the dialog is open neither
\* the session table nor the ledger changes, and the transition that ends
\* it starts at an entered time that parsed and is not later than the clock.
C21_SelectionStartsNothing ==
    [][/\ \A t \in Threads :
            (/\ pc[t] = "idle" /\ Moves(t)
             /\ loc'[t].text \in KnownButtons
             /\ StateIs(loc'[t].user_id, WaitingForPastActivity))
            => pc'[t] = "handle_past_activity_selection"
       /\ \A t \in Threads :
            (/\ pc[t] = "handle_past_activity_selection" /\ Moves(t)
             /\ loc[t].text \in KnownButtons)
            => /\ pc'[t] = "idle"
               /\ UNCHANGED <<user_sessions, activities>>
               /\ loc[t].user_id \in DOMAIN user_states'
               /\ user_states'[loc[t].user_id].state = "waiting_for_past_time"
               /\ "# " \o user_states'[loc[t].user_id].arg = loc[t].text
       /\ (\E user_id \in Users : Backdating(user_id))
            => UNCHANGED <<user_sessions, activities>>
       /\ \A t \in Threads :
            (pc[t] = "past_time_check" /\ pc'[t] = "get_user_session")
            => /\ Parses(loc[t].text)
               /\ loc[t].start_time # NoTime /\ loc[t].start_time <= now
               /\ loc'[t].current_time = loc[t].start_time]_vars

\* C21 witness: a user with an open session has chosen the sleep button in
\* the backdating dialog and is now asked for the time.
C21_SleepChosenForPast ==
    /\ StateIs(1, WaitingForPastTime("Spat"))
    /\ HasOpenSession(FetchSession(1))
    /\ \A t \in Threads : pc[t] = "idle"

\* The handlers that leave a dialog: cancel and the menu navigation
LeavingHandlers == {"cancel_other_activity", "main_menu", "time_menu"}

\* C22: the cancel button and the menu buttons reach their handlers in every
\* dialog state (none, waiting_for_activity, waiting_for_past_activity,
\* waiting_for_past_custom_activity, waiting_for_past_time), and the handler
\* ends with no user_states entry for the user and with the session table
\* and the ledger unchanged.
C22_CancelLeavesIdle ==
    [][/\ \A t \in Threads :
            (pc[t] = "idle" /\ Moves(t))
            => /\ loc'[t].text = BtnCancel => pc'[t] = "cancel_other_activity"
               /\ loc'[t].text = BtnMenu => pc'[t] = "main_menu"
               /\ loc'[t].text = BtnUtro => pc'[t] = "time_menu"
       /\ \A t \in Threads :
            (pc[t] \in LeavingHandlers /\ Moves(t))
            => /\ pc'[t] = "idle"
               /\ loc[t].user_id \notin DOMAIN user_states'
               /\ UNCHANGED <<user_sessions, activities>>]_vars

\* C22 witness: cancel is about to run for a user with an open session who
\* is awaiting the free text of a backdated activity.
C22_CancelInBackdateCustom ==
    \E t \in Threads :
        /\ pc[t] = "cancel_other_activity"
        /\ StateIs(loc[t].user_id, WaitingForPastCustomActivity)

\* C23: when a backdated-time update is delivered twice and both copies are
\* dispatched to handle_past_activity_time, at most one of the two handlers
\* goes on to handle_activity_start.
C23_DuplicateConsumedOnce ==
    \A k \in DOMAIN pair_starts : pair_starts[k] <= 1

\* Thread t computes statistics in this step.
ComputesStatistics(t) == pc[t] \in {"show_statistics", "sleep_statistics"} /\ Moves(t)

\* C15: the day statistics of a user are exactly the user's records whose
\* start_time falls on the current calendar day of Moscow time: a record
\* started in the first hours after Moscow midnight today is in, a record
\* started yesterday (Moscow time) is out.
C15_DayIsMoscowDay ==
    [][\A t \in Threads :
         ComputesStatistics(t) => loc'[t].stats.ids = MoscowDayRows(loc[t].user_id)]_vars

\* C16: computing statistics (the query, the formatting, the reply) leaves
\* the ledger, every user's session and the dialog state unchanged.
C16_StatisticsReadOnly ==
    [][\A t \in Threads :
         (pc[t] \in {"show_statistics", "sleep_statistics", "send_statistics"} /\ Moves(t))
         => UNCHANGED <<activities, user_sessions, user_states>>]_vars

\* C16 witness: a report on a non-empty ledger is about to be sent to a user
\* who has an open session.
C16_ReportWithOpenSession ==
    \E t \in Threads :
        /\ pc[t] = "send_statistics" /\ ~loc[t].sleep
        /\ loc[t].stats.kind = "report"
        /\ HasOpenSession(FetchSession(loc[t].user_id))

\* C17: a statistics request never ends in an error: it ends with a report,
\* or with the empty report (no rows, zero total) when the user has no record
\* for the day, also when the database cannot be reached or the query fails.
C17_StatisticsNeverFail ==
    [][\A t \in Threads :
         ComputesStatistics(t)
         => /\ loc'[t].stats.kind \in {"empty", "report"}
            /\ loc'[t].stats.kind = "empty"
                  => loc'[t].stats.ids = {} /\ loc'[t].stats.total = 0]_vars

====
